---- MODULE Spec2Model ----
(***************************************************************************)
(* Anchor Search & Classification Engine of the Primorial Anchor          *)
(* Conjecture scripts (src/Test_Scripts).  Every S_n pipeline loads a      *)
(* prime file, walks the anchors S_n = p_n + p_{n+1}, searches the nearest *)
(* member of the prime set, classifies the distance (Law I) and feeds its  *)
(* own aggregation buckets.  The gap-vs-residue script tallies the gap of  *)
(* every anchor without a search; the CFR script walks the primes q > 7    *)
(* and measures them against the closest primorial anchor.  One run = one  *)
(* pipeline over one input file.                                           *)
(***************************************************************************)
EXTENDS Integers, Sequences, FiniteSets, TLC

(***************************************************************************)
(* Configuration.  START_INDEX is the scripts' value.  The range size and  *)
(* the two search caps are scaled down (50,000,000 pairs, caps 2000 and    *)
(* 3000 in the scripts); the cap of the "perfect" mod-2310 branch stays    *)
(* larger than the ordinary one, as in the source.  test-5-data.py has its *)
(* own cap (3000) and the correction radius MAX_LAW_III_RADIUS (30), both  *)
(* scaled down as well, and so is MAX_PRIMES_TO_TEST of test-1-pac-cfr.py  *)
(* (50,000,000).  analyze_composite_k_distribution.py starts its range at  *)
(* start_index = 1; a pass over a partition of that range starts at the    *)
(* split point PartitionStart instead.                                     *)
(***************************************************************************)
START_INDEX == 10
MAX_PRIME_PAIRS_TO_TEST == 340
MAX_PRIMES_TO_TEST == 400
PartitionStart == 165
SEARCH_CAP == 50
PERFECT_SEARCH_CAP == 60
LAW3_SEARCH_CAP == 60
MAX_LAW_III_RADIUS == 2

(***************************************************************************)
(* The input file: an ascending listing of the primes, one per line.  A    *)
(* file is the first file_len primes, optionally followed by one last line *)
(* that is not a prime (the loaders do int(line) and validate nothing):     *)
(* 2558 = 2 * 1279, 4571 = 7 * 653, 4595 = 5 * 919 or 4605 = 3 * 5 * 307.  *)
(* SieveMax bounds the primes of the longest file.                         *)
(***************************************************************************)
SieveMax == 4800
ExtraLines == {0, 2558, 4571, 4595, 4605}

IsPrimeNumber(n) == n >= 2 /\ \A d \in 2..(n - 1) : d * d > n \/ n % d # 0
AllPrimes == {n \in 2..SieveMax : IsPrimeNumber(n)}
NumPrimes == Cardinality(AllPrimes)
Rank == [p \in AllPrimes |-> Cardinality({q \in AllPrimes : q < p})]
PrimeAt == [j \in 0..(NumPrimes - 1) |-> CHOOSE p \in AllPrimes : Rank[p] = j]

VARIABLES
    pipeline,   \* which script runs: "freq", "viol", "residue", "mod2310", "gapfail",
                \* "law3", "gapres", "cfr"
    start_index, \* first index of the pass
    file_len,   \* number of prime lines of the input file
    extra_line, \* 0, or the value of a trailing non-prime line
    pc,         \* "load", "loop", "done", "fatal", "falsified"
    i,          \* loop index: the next anchor to process
    anchor_S_n, \* anchor of the last processed index
    min_distance_k,
    q_prime,
    verdict,    \* what the last processed anchor was classified as
    total_law_I_failures,
    composite_k_counts,             \* analyze_composite_k_distribution.py
    p2_failures_by_k, p3_failures_by_k, p4_failures_by_k,   \* test-2
    violations_p2, violations_p3, violations_p4,            \* test-2
    failures_by_residue,            \* test-3
    perfect_mod2310_anchors_found,  \* test-4
    failures_from_perfect_mod2310,  \* test-4
    violations_p5,                  \* test-4
    gap_stats_by_k,                 \* test-6
    total_gap_sum_overall,          \* test-6
    total_anchors_analyzed,         \* test-6
    max_r_observed,                 \* test-5-data
    law_III_failures,               \* test-5-data
    correlation_data,               \* test-5-data: the rows, also written to the CSV
    gap_stats_mod6, gap_stats_mod30, gap_stats_mod210,      \* test-5-gap-residue
    cfr_q,                          \* test-1: the prime q of the last iteration
    closest_anchor,                 \* test-1: A_6, A_30, A_210 of the last iteration
    failure_counts,                 \* test-1
    cfr_verdict                     \* test-1: the final verdict line

fileVars == <<pipeline, start_index, file_len, extra_line>>
searchVars == <<anchor_S_n, min_distance_k, q_prime, verdict>>
freqVars == <<composite_k_counts>>
violVars == <<p2_failures_by_k, p3_failures_by_k, p4_failures_by_k,
              violations_p2, violations_p3, violations_p4>>
residueVars == <<failures_by_residue>>
mod2310Vars == <<perfect_mod2310_anchors_found, failures_from_perfect_mod2310,
                 violations_p5>>
gapfailVars == <<gap_stats_by_k, total_gap_sum_overall, total_anchors_analyzed>>
law3Vars == <<max_r_observed, law_III_failures, correlation_data>>
gapresVars == <<gap_stats_mod6, gap_stats_mod30, gap_stats_mod210>>
cfrVars == <<cfr_q, closest_anchor, failure_counts, cfr_verdict>>
vars == <<fileVars, pc, i, searchVars, total_law_I_failures, freqVars, violVars,
          residueVars, mod2310Vars, gapfailVars, law3Vars, gapresVars, cfrVars>>

\* the scripts that search the nearest member of the prime set around an anchor
SearchPipelines == {"freq", "viol", "residue", "mod2310", "gapfail", "law3"}
Pipelines == SearchPipelines \cup {"gapres", "cfr"}

(***************************************************************************)
(* The loaded data: len(prime_list), prime_list[j], x in prime_set and     *)
(* max(prime_list), read off the file.                                     *)
(***************************************************************************)
LenPrimeList == file_len + (IF extra_line = 0 THEN 0 ELSE 1)
prime_list(j) == IF j < file_len THEN PrimeAt[j] ELSE extra_line
InPrimeSet(x) ==
    \/ x \in AllPrimes /\ x <= PrimeAt[file_len - 1]
    \/ extra_line # 0 /\ x = extra_line
max_prime_in_set == IF extra_line # 0 THEN extra_line ELSE PrimeAt[file_len - 1]

\* is_prime(num, prime_set) of analyze_composite_k_distribution.py
is_prime(num) == IF num < 2 THEN FALSE ELSE InPrimeSet(num)

(***************************************************************************)
(* Nearest-prime search.  A result is [k, q]: k = min_distance_k (0 when   *)
(* the cap was hit), q = the neighbour the loop stored.                    *)
(***************************************************************************)
NoHit == [k |-> 0, q |-> 0]

\* analyze loop whose cap check is search_dist >= cap
RECURSIVE SearchCheckFirstStrict(_, _)
SearchCheckFirstStrict(S, search_dist) ==
    IF search_dist >= SEARCH_CAP THEN NoHit
    ELSE IF is_prime(S - search_dist) THEN [k |-> search_dist, q |-> S - search_dist]
    ELSE IF is_prime(S + search_dist) THEN [k |-> search_dist, q |-> S + search_dist]
    ELSE SearchCheckFirstStrict(S, search_dist + 1)

\* analyze_k_distribution: the cap is checked before the candidates are tested
RECURSIVE SearchCheckFirst(_, _)
SearchCheckFirst(S, search_dist) ==
    IF search_dist > SEARCH_CAP THEN NoHit
    ELSE IF is_prime(S - search_dist) THEN [k |-> search_dist, q |-> S - search_dist]
    ELSE IF is_prime(S + search_dist) THEN [k |-> search_dist, q |-> S + search_dist]
    ELSE SearchCheckFirst(S, search_dist + 1)

\* test-2 loop that never tests q_lower
RECURSIVE SearchUpperOnly(_, _, _)
SearchUpperOnly(S, search_dist, cap) ==
    IF InPrimeSet(S + search_dist) THEN [k |-> search_dist, q |-> S + search_dist]
    ELSE IF search_dist + 1 > cap THEN NoHit
    ELSE SearchUpperOnly(S, search_dist + 1, cap)

\* test-2 loop that tests q_upper before q_lower
RECURSIVE SearchUpperFirst(_, _, _)
SearchUpperFirst(S, search_dist, cap) ==
    IF InPrimeSet(S + search_dist) THEN [k |-> search_dist, q |-> S + search_dist]
    ELSE IF InPrimeSet(S - search_dist) THEN [k |-> search_dist, q |-> S - search_dist]
    ELSE IF search_dist + 1 > cap THEN NoHit
    ELSE SearchUpperFirst(S, search_dist + 1, cap)

\* test-2 loop whose safety break compares with a larger limit
RECURSIVE SearchCapTooWide(_, _, _)
SearchCapTooWide(S, search_dist, cap) ==
    IF InPrimeSet(S - search_dist) THEN [k |-> search_dist, q |-> S - search_dist]
    ELSE IF InPrimeSet(S + search_dist) THEN [k |-> search_dist, q |-> S + search_dist]
    ELSE IF search_dist + 1 > cap + 10 THEN NoHit
    ELSE SearchCapTooWide(S, search_dist + 1, cap)

\* test-2, test-3, test-4 (perfect branch), test-6: test, increment, then check the cap
RECURSIVE SearchTestFirst(_, _, _)
SearchTestFirst(S, search_dist, cap) ==
    IF InPrimeSet(S - search_dist) THEN [k |-> search_dist, q |-> S - search_dist]
    ELSE IF InPrimeSet(S + search_dist) THEN [k |-> search_dist, q |-> S + search_dist]
    ELSE IF search_dist + 1 > cap THEN NoHit
    ELSE SearchTestFirst(S, search_dist + 1, cap)

\* test-4, non-perfect branch with the q_upper operand of the test missing
RECURSIVE SearchNoNeighborLowerOnly(_, _)
SearchNoNeighborLowerOnly(S, search_dist) ==
    IF InPrimeSet(S - search_dist) THEN search_dist
    ELSE IF search_dist + 1 > SEARCH_CAP THEN 0
    ELSE SearchNoNeighborLowerOnly(S, search_dist + 1)

\* test-4, non-perfect branch: one combined test, no neighbour stored
RECURSIVE SearchNoNeighbor(_, _)
SearchNoNeighbor(S, search_dist) ==
    IF InPrimeSet(S - search_dist) \/ InPrimeSet(S + search_dist) THEN search_dist
    ELSE IF search_dist + 1 > SEARCH_CAP THEN 0
    ELSE SearchNoNeighbor(S, search_dist + 1)

\* test-5-data: the lower candidate is tested only when it is > 1
RECURSIVE SearchLowerGuarded(_, _, _)
SearchLowerGuarded(S, search_dist, cap) ==
    IF S - search_dist > 1 /\ InPrimeSet(S - search_dist)
    THEN [k |-> search_dist, q |-> S - search_dist]
    ELSE IF InPrimeSet(S + search_dist) THEN [k |-> search_dist, q |-> S + search_dist]
    ELSE IF search_dist + 1 > cap THEN NoHit
    ELSE SearchLowerGuarded(S, search_dist + 1, cap)

(***************************************************************************)
(* Law I classification, in the two forms the scripts use.                 *)
(***************************************************************************)
\* the classification without the k == 1 case
IsLawISuccessNoUnit(k) == is_prime(k)
\* the composite test with k >= 1 for k > 1
IsKCompositeFromOne(k) == (k >= 1) /\ ~InPrimeSet(k)
IsLawISuccess(k) == (k = 1) \/ is_prime(k)
IsKComposite(k) == (k > 1) /\ ~InPrimeSet(k)

(***************************************************************************)
(* Aggregation helpers.                                                    *)
(***************************************************************************)
\* an update that bumps every key of the tally
IncrEveryKey(d, k) ==
    [x \in DOMAIN d \cup {k} |-> (IF x \in DOMAIN d THEN d[x] ELSE 0) + 1]

\* d.setdefault(k, 1): an existing key is left as it is
IncrKeepsFirst(d, k) == d @@ (k :> 1)

\* d[k] += 1 on a defaultdict(int)
Incr(d, k) == IF k \in DOMAIN d THEN [d EXCEPT ![k] = @ + 1] ELSE d @@ (k :> 1)

\* an update that adds the gap only when it creates the key
AddGapFirstOnly(d, k, g) ==
    IF k \in DOMAIN d
    THEN [d EXCEPT ![k] = [count |-> @.count + 1, gap_sum |-> @.gap_sum]]
    ELSE d @@ (k :> [count |-> 1, gap_sum |-> g])

\* gap_stats_by_k[k]['count'] += 1; gap_stats_by_k[k]['gap_sum'] += gap_g_n
AddGap(d, k, g) ==
    IF k \in DOMAIN d
    THEN [d EXCEPT ![k] = [count |-> @.count + 1, gap_sum |-> @.gap_sum + g]]
    ELSE d @@ (k :> [count |-> 1, gap_sum |-> g])

failure_event(n, S, q, k) ==
    [n_index |-> n, S_n |-> S, q_prime |-> q, k_composite |-> k]

k_mod_3(k) == k % 3 = 0
k_mod_5(k) == k % 5 = 0
k_mod_7(k) == k % 7 = 0
\* the P3 test pasted into the P2 block
IsViolationP2WithFive(k) == k_mod_3(k) \/ k_mod_5(k)
\* the P3 test without its k_mod_5 operand
IsViolationP3OnlyThree(k) == k_mod_3(k)
\* the P4 test with only the operand P4 adds to P3
IsViolationP4OnlySeven(k) == k_mod_7(k)
IsViolationP2(k) == k_mod_3(k)
IsViolationP3(k) == k_mod_3(k) \/ k_mod_5(k)
IsViolationP4(k) == k_mod_3(k) \/ k_mod_5(k) \/ k_mod_7(k)
IsViolationP5(k) == k % 3 = 0 \/ k % 5 = 0 \/ k % 7 = 0 \/ k % 11 = 0

(***************************************************************************)
(* Correction-radius search of test-5-data.py (Law III).                   *)
(***************************************************************************)
is_clean_k(k_val) ==
    IF k_val = 1 THEN TRUE
    ELSE IF k_val < 2 THEN FALSE
    ELSE InPrimeSet(k_val)

\* prime_list[j] + prime_list[j + 1]
anchor_at(j) == prime_list(j) + prime_list(j + 1)

AbsDiff(a, b) == IF a < b THEN b - a ELSE a - b

NoFix == [fix_found |-> FALSE, fixing_radius_r |-> 0, S_fix |-> 0]

\* the correction loop with S_{n+r} tested before S_{n-r}
RECURSIVE Law3SearchNextFirst(_, _, _)
Law3SearchNextFirst(n, q, r) ==
    IF r > MAX_LAW_III_RADIUS THEN NoFix
    ELSE IF is_clean_k(AbsDiff(anchor_at(n + r), q))
    THEN [fix_found |-> TRUE, fixing_radius_r |-> r, S_fix |-> anchor_at(n + r)]
    ELSE IF is_clean_k(AbsDiff(anchor_at(n - r), q))
    THEN [fix_found |-> TRUE, fixing_radius_r |-> r, S_fix |-> anchor_at(n - r)]
    ELSE Law3SearchNextFirst(n, q, r + 1)

\* the correction loop running one radius too far
RECURSIVE Law3SearchBeyondRadius(_, _, _)
Law3SearchBeyondRadius(n, q, r) ==
    IF r > MAX_LAW_III_RADIUS + 1 THEN NoFix
    ELSE IF is_clean_k(AbsDiff(anchor_at(n - r), q))
    THEN [fix_found |-> TRUE, fixing_radius_r |-> r, S_fix |-> anchor_at(n - r)]
    ELSE IF is_clean_k(AbsDiff(anchor_at(n + r), q))
    THEN [fix_found |-> TRUE, fixing_radius_r |-> r, S_fix |-> anchor_at(n + r)]
    ELSE Law3SearchBeyondRadius(n, q, r + 1)

\* for r in range(1, MAX_LAW_III_RADIUS + 1): S_prev, then S_next
RECURSIVE Law3Search(_, _, _)
Law3Search(n, q, r) ==
    IF r > MAX_LAW_III_RADIUS THEN NoFix
    ELSE IF is_clean_k(AbsDiff(anchor_at(n - r), q))
    THEN [fix_found |-> TRUE, fixing_radius_r |-> r, S_fix |-> anchor_at(n - r)]
    ELSE IF is_clean_k(AbsDiff(anchor_at(n + r), q))
    THEN [fix_found |-> TRUE, fixing_radius_r |-> r, S_fix |-> anchor_at(n + r)]
    ELSE Law3Search(n, q, r + 1)

\* a row whose Sfix residues are taken from the failing anchor
event_data_anchor_residues(n, S, q, k, fix) ==
    [n_index |-> n, Sn |-> S, q_prime |-> q, k_composite |-> k,
     Sn_mod6 |-> S % 6, Sn_mod30 |-> S % 30, Sn_mod210 |-> S % 210,
     fix_radius_r |-> fix.fixing_radius_r, S_fix |-> fix.S_fix,
     Sfix_mod6 |-> S % 6, Sfix_mod30 |-> S % 30, Sfix_mod210 |-> S % 210]

\* a row that records the radius counted from 0
event_data_radius_from_zero(n, S, q, k, fix) ==
    [n_index |-> n, Sn |-> S, q_prime |-> q, k_composite |-> k,
     Sn_mod6 |-> S % 6, Sn_mod30 |-> S % 30, Sn_mod210 |-> S % 210,
     fix_radius_r |-> fix.fixing_radius_r - 1, S_fix |-> fix.S_fix,
     Sfix_mod6 |-> fix.S_fix % 6, Sfix_mod30 |-> fix.S_fix % 30,
     Sfix_mod210 |-> fix.S_fix % 210]

\* event_data, the row appended to correlation_data and written to the CSV
event_data(n, S, q, k, fix) ==
    [n_index |-> n, Sn |-> S, q_prime |-> q, k_composite |-> k,
     Sn_mod6 |-> S % 6, Sn_mod30 |-> S % 30, Sn_mod210 |-> S % 210,
     fix_radius_r |-> fix.fixing_radius_r, S_fix |-> fix.S_fix,
     Sfix_mod6 |-> fix.S_fix % 6, Sfix_mod30 |-> fix.S_fix % 30,
     Sfix_mod210 |-> fix.S_fix % 210]

\* an event without a fix treated like one with a fix: the loop goes on
Law3ContinuationNoBreak(fix_found, n) == [pc |-> "loop", i |-> n + 1]

\* where the loop stands after a composite failure at index n: the next index, or
\* the break of the Law III falsification path
Law3Continuation(fix_found, n) ==
    IF fix_found THEN [pc |-> "loop", i |-> n + 1] ELSE [pc |-> "falsified", i |-> n]

(***************************************************************************)
(* test-5-gap-residue-correlation.py: the gap buckets of one modulus.      *)
(***************************************************************************)
EmptyGapStats(P) == [r \in 0..(P - 1) |-> [count |-> 0, gap_sum |-> 0]]

\* a tally that overwrites the bucket instead of accumulating
TallyGapOverwrite(d, r, g) == [d EXCEPT ![r] = [count |-> 1, gap_sum |-> g]]

\* a tally that counts the anchor and drops its gap
TallyGapCountOnly(d, r, g) == [d EXCEPT ![r] = [count |-> @.count + 1, gap_sum |-> @.gap_sum]]

\* gap_stats[r]['count'] += 1; gap_stats[r]['gap_sum'] += gap_g_n
TallyGap(d, r, g) ==
    [d EXCEPT ![r] = [count |-> @.count + 1, gap_sum |-> @.gap_sum + g]]

(***************************************************************************)
(* test-1-pac-cfr.py: the loaded primes, the closest primorial anchor and  *)
(* the failure test.                                                       *)
(***************************************************************************)
CfrPrimorials == {6, 30, 210}

\* load_primes_from_file(filename, max_count) keeps the first max_count lines
cfr_loaded_count ==
    IF LenPrimeList < MAX_PRIMES_TO_TEST THEN LenPrimeList ELSE MAX_PRIMES_TO_TEST
InCfrPrimeSet(x) ==
    \/ x \in AllPrimes
       /\ x <= PrimeAt[(IF cfr_loaded_count < file_len THEN cfr_loaded_count
                        ELSE file_len) - 1]
    \/ extra_line # 0 /\ cfr_loaded_count > file_len /\ x = extra_line

\* primes_to_test = [p for p in prime_list if p > 7]
cfr_skipped == {j \in 0..(cfr_loaded_count - 1) : prime_list(j) <= 7}
total_primes_tested == cfr_loaded_count - Cardinality(cfr_skipped)
primes_to_test(n) == prime_list(n + Cardinality(cfr_skipped))

\* a helper that keeps the multiple below on a tie
get_closest_anchor_tie_below(q, primorial) ==
    LET A_below == (q \div primorial) * primorial
        A_above == A_below + primorial
    IN  IF (q - A_below) <= (A_above - q) THEN A_below ELSE A_above

\* a helper that always returns the multiple below
get_closest_anchor_floor(q, primorial) == (q \div primorial) * primorial

get_closest_anchor(q, primorial) ==
    LET A_below == (q \div primorial) * primorial
        A_above == A_below + primorial
    IN  IF (q - A_below) < (A_above - q) THEN A_below ELSE A_above

\* a failure test that counts the distance 1
IsCfrFailureFromOne(k) == (k >= 1) /\ ~InCfrPrimeSet(k)

\* (k > 1) and (k not in prime_set)
IsCfrFailure(k) == (k > 1) /\ ~InCfrPrimeSet(k)

\* cfr_210 < cfr_30 and cfr_30 < cfr_6, each cfr being count / total * 100 over the
\* same positive total: the rates compare as the counts do
CfrVerdict(counts) ==
    IF counts[210] < counts[30] /\ counts[30] < counts[6]
    THEN "CONJECTURE VERIFIED" ELSE "CONJECTURE FALSIFIED"

(***************************************************************************)
(* Inputs and the loop range of each script.                               *)
(***************************************************************************)
TruncPad == 10
FileLengths ==
    { MAX_PRIME_PAIRS_TO_TEST + 1,
      MAX_PRIME_PAIRS_TO_TEST + 2,
      MAX_PRIME_PAIRS_TO_TEST + START_INDEX + MAX_LAW_III_RADIUS + 2,
      MAX_PRIME_PAIRS_TO_TEST + START_INDEX + 10,
      MAX_PRIME_PAIRS_TO_TEST + START_INDEX + 10 + TruncPad,
      NumPrimes }

\* the files given to the scripts that do not search: one that is one line short
\* of what the loop reads unless it has a trailing line, and the longest file
InputLengths(p) ==
    IF p = "gapres" THEN {MAX_PRIME_PAIRS_TO_TEST + START_INDEX, NumPrimes}
    ELSE IF p = "cfr" THEN {MAX_PRIME_PAIRS_TO_TEST + 1, NumPrimes}
    ELSE FileLengths

\* the passes of the frequency script: the whole range, and over the two longest
\* files also the partition that starts at the split point
StartIndexes(p, len) ==
    IF p = "freq" /\ len >= MAX_PRIME_PAIRS_TO_TEST + START_INDEX + 10 + TruncPad
    THEN {1, PartitionStart}
    ELSE {1}

\* a precondition that asks for one prime fewer
required_primes_short(p) ==
    IF p = "freq" THEN MAX_PRIME_PAIRS_TO_TEST + 1
    ELSE IF p = "law3"
    THEN MAX_PRIME_PAIRS_TO_TEST + START_INDEX + MAX_LAW_III_RADIUS + 1
    ELSE IF p = "gapres" THEN MAX_PRIME_PAIRS_TO_TEST + START_INDEX
    ELSE IF p = "cfr" THEN 0
    ELSE MAX_PRIME_PAIRS_TO_TEST + START_INDEX

\* the prime-count precondition of each script (test-1 has none)
required_primes(p) ==
    IF p = "freq" THEN MAX_PRIME_PAIRS_TO_TEST + 2
    ELSE IF p = "gapres" THEN MAX_PRIME_PAIRS_TO_TEST + START_INDEX + 1
    ELSE IF p = "cfr" THEN 0
    ELSE IF p = "law3"
    THEN MAX_PRIME_PAIRS_TO_TEST + START_INDEX + MAX_LAW_III_RADIUS + 2
    ELSE MAX_PRIME_PAIRS_TO_TEST + START_INDEX + 10

\* every script starting its loop at index 0
loop_start_from_zero(p) == 0

\* every script starting its loop at START_INDEX
loop_start_same_everywhere(p) == START_INDEX

loop_start_index(p) ==
    IF p = "freq" THEN start_index
    ELSE IF p = "law3" THEN START_INDEX + MAX_LAW_III_RADIUS
    ELSE IF p = "cfr" THEN 0
    ELSE START_INDEX
loop_end_index(p) ==
    IF p = "freq" THEN MAX_PRIME_PAIRS_TO_TEST + 1
    ELSE IF p = "cfr" THEN total_primes_tested
    ELSE MAX_PRIME_PAIRS_TO_TEST + loop_start_index(p)

\* test-5-data: no room for the S_{n+r} lookups at the end of the range
not_enough_for_lookups(p) ==
    p = "law3" /\ loop_end_index(p) >= LenPrimeList - MAX_LAW_III_RADIUS - 1

Init ==
    /\ pipeline \in Pipelines
    /\ file_len \in InputLengths(pipeline)
    /\ start_index \in StartIndexes(pipeline, file_len)
    /\ extra_line \in {x \in ExtraLines : x = 0 \/ x > PrimeAt[file_len - 1]}
    /\ pc = "load"
    /\ i = 0
    /\ anchor_S_n = 0
    /\ min_distance_k = 0
    /\ q_prime = 0
    /\ verdict = "none"
    /\ total_law_I_failures = 0
    /\ composite_k_counts = <<>>
    /\ p2_failures_by_k = <<>>
    /\ p3_failures_by_k = <<>>
    /\ p4_failures_by_k = <<>>
    /\ violations_p2 = <<>>
    /\ violations_p3 = <<>>
    /\ violations_p4 = <<>>
    /\ failures_by_residue = [r \in 0..29 |-> <<>>]
    /\ perfect_mod2310_anchors_found = 0
    /\ failures_from_perfect_mod2310 = <<>>
    /\ violations_p5 = <<>>
    /\ gap_stats_by_k = <<>>
    /\ total_gap_sum_overall = 0
    /\ total_anchors_analyzed = 0
    /\ max_r_observed = 0
    /\ law_III_failures = <<>>
    /\ correlation_data = <<>>
    /\ gap_stats_mod6 = EmptyGapStats(6)
    /\ gap_stats_mod30 = EmptyGapStats(30)
    /\ gap_stats_mod210 = EmptyGapStats(210)
    /\ cfr_q = 0
    /\ closest_anchor = [P \in CfrPrimorials |-> 0]
    /\ failure_counts = [P \in CfrPrimorials |-> 0]
    /\ cfr_verdict = "none"

\* load_primes_from_file and the prime-count precondition
Load ==
    /\ pc = "load"
    /\ IF LenPrimeList < required_primes(pipeline) \/ not_enough_for_lookups(pipeline)
       THEN pc' = "fatal" /\ i' = i
       ELSE pc' = "loop" /\ i' = loop_start_index(pipeline)
    /\ UNCHANGED <<fileVars, searchVars, total_law_I_failures, freqVars, violVars,
                   residueVars, mod2310Vars, gapfailVars, law3Vars,
                   gapresVars, cfrVars>>

\* analyze_k_distribution: one iteration of the main loop
StepFreq ==
    /\ pc = "loop" /\ pipeline = "freq"
    /\ i < loop_end_index(pipeline)
    /\ LET anchor_sum == prime_list(i) + prime_list(i + 1)
           r == SearchCheckFirst(anchor_sum, 1)
       IN  IF anchor_sum + SEARCH_CAP > max_prime_in_set
           THEN /\ pc' = "fatal"
                /\ anchor_S_n' = anchor_sum
                /\ UNCHANGED <<i, min_distance_k, q_prime, verdict,
                               total_law_I_failures, composite_k_counts>>
           ELSE /\ pc' = "loop"
                /\ i' = i + 1
                /\ anchor_S_n' = anchor_sum
                /\ min_distance_k' = r.k
                /\ q_prime' = r.q
                /\ IF r.k = 0
                   THEN /\ verdict' = "skipped"
                        /\ UNCHANGED <<total_law_I_failures, composite_k_counts>>
                   ELSE IF ~IsLawISuccess(r.k)
                   THEN /\ verdict' = "composite_failure"
                        /\ total_law_I_failures' = total_law_I_failures + 1
                        /\ composite_k_counts' = Incr(composite_k_counts, r.k)
                   ELSE /\ verdict' = "success"
                        /\ UNCHANGED <<total_law_I_failures, composite_k_counts>>
    /\ UNCHANGED <<fileVars, violVars, residueVars, mod2310Vars, gapfailVars, law3Vars,
                   gapresVars, cfrVars>>

\* run_PAC_classifier_suite: one iteration of the main loop
StepViol ==
    /\ pc = "loop" /\ pipeline = "viol"
    /\ i < loop_end_index(pipeline)
    /\ LET S == prime_list(i) + prime_list(i + 1)
           r == SearchTestFirst(S, 1, SEARCH_CAP)
           k == r.k
           ev == failure_event(i, S, r.q, k)
       IN  /\ i' = i + 1
           /\ anchor_S_n' = S
           /\ min_distance_k' = k
           /\ q_prime' = r.q
           /\ IF k = 0
              THEN /\ verdict' = "skipped"
                   /\ UNCHANGED <<total_law_I_failures, violVars>>
              ELSE IF IsKComposite(k)
              THEN /\ verdict' = "composite_failure"
                   /\ total_law_I_failures' = total_law_I_failures + 1
                   /\ p2_failures_by_k' =
                        IF S % 6 = 0 THEN Incr(p2_failures_by_k, k) ELSE p2_failures_by_k
                   /\ violations_p2' =
                        IF S % 6 = 0 /\ IsViolationP2(k)
                        THEN Append(violations_p2, ev) ELSE violations_p2
                   /\ p3_failures_by_k' =
                        IF S % 30 = 0 THEN Incr(p3_failures_by_k, k) ELSE p3_failures_by_k
                   /\ violations_p3' =
                        IF S % 30 = 0 /\ IsViolationP3(k)
                        THEN Append(violations_p3, ev) ELSE violations_p3
                   /\ p4_failures_by_k' =
                        IF S % 210 = 0 THEN Incr(p4_failures_by_k, k) ELSE p4_failures_by_k
                   /\ violations_p4' =
                        IF S % 210 = 0 /\ IsViolationP4(k)
                        THEN Append(violations_p4, ev) ELSE violations_p4
              ELSE /\ verdict' = "success"
                   /\ UNCHANGED <<total_law_I_failures, violVars>>
    /\ UNCHANGED <<fileVars, pc, freqVars, residueVars, mod2310Vars, gapfailVars,
                   law3Vars,
                   gapresVars, cfrVars>>

\* run_PAC_residue_analysis_mod30: one iteration of the main loop
StepResidue ==
    /\ pc = "loop" /\ pipeline = "residue"
    /\ i < loop_end_index(pipeline)
    /\ LET S == prime_list(i) + prime_list(i + 1)
           r == SearchTestFirst(S, 1, SEARCH_CAP)
           k == r.k
       IN  /\ i' = i + 1
           /\ anchor_S_n' = S
           /\ min_distance_k' = k
           /\ q_prime' = r.q
           /\ IF k = 0
              THEN /\ verdict' = "skipped"
                   /\ UNCHANGED <<total_law_I_failures, failures_by_residue>>
              ELSE IF IsKComposite(k)
              THEN /\ verdict' = "composite_failure"
                   /\ total_law_I_failures' = total_law_I_failures + 1
                   /\ failures_by_residue' =
                        [failures_by_residue EXCEPT ![S % 30] = Incr(@, k)]
              ELSE /\ verdict' = "success"
                   /\ UNCHANGED <<total_law_I_failures, failures_by_residue>>
    /\ UNCHANGED <<fileVars, pc, freqVars, violVars, mod2310Vars, gapfailVars,
                   law3Vars,
                   gapresVars, cfrVars>>

\* run_PAC_mod2310_verification: one iteration, anchor_S_n % 2310 == 0
StepMod2310Perfect ==
    /\ pc = "loop" /\ pipeline = "mod2310"
    /\ i < loop_end_index(pipeline)
    /\ LET S == prime_list(i) + prime_list(i + 1)
           r == SearchTestFirst(S, 1, PERFECT_SEARCH_CAP)
           k == r.k
       IN  /\ S % 2310 = 0
           /\ i' = i + 1
           /\ anchor_S_n' = S
           /\ perfect_mod2310_anchors_found' = perfect_mod2310_anchors_found + 1
           /\ min_distance_k' = k
           /\ q_prime' = r.q
           /\ IF k = 0
              THEN /\ verdict' = "skipped"
                   /\ UNCHANGED <<total_law_I_failures, failures_from_perfect_mod2310,
                                  violations_p5>>
              ELSE IF IsKComposite(k)
              THEN /\ verdict' = "composite_failure"
                   /\ total_law_I_failures' = total_law_I_failures + 1
                   /\ failures_from_perfect_mod2310' =
                        Incr(failures_from_perfect_mod2310, k)
                   /\ violations_p5' =
                        IF IsViolationP5(k)
                        THEN Append(violations_p5, failure_event(i, S, r.q, k))
                        ELSE violations_p5
              ELSE /\ verdict' = "success"
                   /\ UNCHANGED <<total_law_I_failures, failures_from_perfect_mod2310,
                                  violations_p5>>
    /\ UNCHANGED <<fileVars, pc, freqVars, violVars, residueVars, gapfailVars,
                   law3Vars,
                   gapresVars, cfrVars>>

\* run_PAC_mod2310_verification: one iteration, anchor_S_n % 2310 != 0
StepMod2310Other ==
    /\ pc = "loop" /\ pipeline = "mod2310"
    /\ i < loop_end_index(pipeline)
    /\ LET S == prime_list(i) + prime_list(i + 1)
           k == SearchNoNeighbor(S, 1)
       IN  /\ S % 2310 # 0
           /\ i' = i + 1
           /\ anchor_S_n' = S
           /\ min_distance_k' = k
           /\ IF k > 0
              THEN IF IsKComposite(k)
                   THEN /\ verdict' = "composite_failure"
                        /\ total_law_I_failures' = total_law_I_failures + 1
                   ELSE /\ verdict' = "success"
                        /\ UNCHANGED total_law_I_failures
              ELSE /\ verdict' = "skipped"
                   /\ UNCHANGED total_law_I_failures
    /\ UNCHANGED <<fileVars, pc, q_prime, freqVars, violVars, residueVars,
                   mod2310Vars, gapfailVars, law3Vars,
                   gapresVars, cfrVars>>

\* run_PAC_failure_gap_correlation: one iteration of the main loop
StepGapFail ==
    /\ pc = "loop" /\ pipeline = "gapfail"
    /\ i < loop_end_index(pipeline)
    /\ LET p_n == prime_list(i)
           p_n_plus_1 == prime_list(i + 1)
           S == p_n + p_n_plus_1
           gap_g_n == p_n_plus_1 - p_n
           k == SearchTestFirst(S, 1, SEARCH_CAP).k
       IN  /\ i' = i + 1
           /\ anchor_S_n' = S
           /\ total_anchors_analyzed' = total_anchors_analyzed + 1
           /\ total_gap_sum_overall' = total_gap_sum_overall + gap_g_n
           /\ min_distance_k' = k
           /\ IF k = 0
              THEN /\ verdict' = "skipped"
                   /\ UNCHANGED <<total_law_I_failures, gap_stats_by_k>>
              ELSE IF IsKComposite(k)
              THEN /\ verdict' = "composite_failure"
                   /\ total_law_I_failures' = total_law_I_failures + 1
                   /\ gap_stats_by_k' = AddGap(gap_stats_by_k, k, gap_g_n)
              ELSE /\ verdict' = "success"
                   /\ UNCHANGED <<total_law_I_failures, gap_stats_by_k>>
    /\ UNCHANGED <<fileVars, pc, q_prime, freqVars, violVars, residueVars, mod2310Vars,
                   law3Vars,
                   gapresVars, cfrVars>>

\* run_PAC_Law3_correlation_test: one iteration of the main loop
StepLaw3 ==
    /\ pc = "loop" /\ pipeline = "law3"
    /\ i < loop_end_index(pipeline)
    /\ LET S == anchor_at(i)
           r == SearchLowerGuarded(S, 1, LAW3_SEARCH_CAP)
           k == r.k
           fix == Law3Search(i, r.q, 1)
           after == Law3Continuation(fix.fix_found, i)
       IN  /\ anchor_S_n' = S
           /\ min_distance_k' = k
           /\ q_prime' = r.q
           /\ IF k = 0
              THEN /\ verdict' = "skipped"
                   /\ i' = i + 1
                   /\ UNCHANGED <<pc, total_law_I_failures, law3Vars>>
              ELSE IF IsKComposite(k)
              THEN /\ verdict' = "composite_failure"
                   /\ total_law_I_failures' = total_law_I_failures + 1
                   /\ pc' = after.pc
                   /\ i' = after.i
                   /\ IF fix.fix_found
                      THEN /\ max_r_observed' =
                                IF fix.fixing_radius_r > max_r_observed
                                THEN fix.fixing_radius_r ELSE max_r_observed
                           /\ correlation_data' =
                                Append(correlation_data, event_data(i, S, r.q, k, fix))
                           /\ UNCHANGED law_III_failures
                      ELSE /\ law_III_failures' = Append(law_III_failures, i)
                           /\ UNCHANGED <<max_r_observed, correlation_data>>
              ELSE /\ verdict' = "success"
                   /\ i' = i + 1
                   /\ UNCHANGED <<pc, total_law_I_failures, law3Vars>>
    /\ UNCHANGED <<fileVars, freqVars, violVars, residueVars, mod2310Vars, gapfailVars,
                   gapresVars, cfrVars>>

\* run_PAC_gap_residue_correlation: one iteration of the main loop
StepGapRes ==
    /\ pc = "loop" /\ pipeline = "gapres"
    /\ i < loop_end_index(pipeline)
    /\ LET p_n == prime_list(i)
           p_n_plus_1 == prime_list(i + 1)
           S == p_n + p_n_plus_1
           gap_g_n == p_n_plus_1 - p_n
       IN  /\ i' = i + 1
           /\ anchor_S_n' = S
           /\ total_anchors_analyzed' = total_anchors_analyzed + 1
           /\ gap_stats_mod6' = TallyGap(gap_stats_mod6, S % 6, gap_g_n)
           /\ gap_stats_mod30' = TallyGap(gap_stats_mod30, S % 30, gap_g_n)
           /\ gap_stats_mod210' = TallyGap(gap_stats_mod210, S % 210, gap_g_n)
    /\ UNCHANGED <<fileVars, pc, min_distance_k, q_prime, verdict, total_law_I_failures,
                   freqVars, violVars, residueVars, mod2310Vars, gap_stats_by_k,
                   total_gap_sum_overall, law3Vars, cfrVars>>

\* run_PAC_CFR_test: one iteration of the loop over primes_to_test
StepCfr ==
    /\ pc = "loop" /\ pipeline = "cfr"
    /\ i < loop_end_index(pipeline)
    /\ LET q == primes_to_test(i)
           A == [P \in CfrPrimorials |-> get_closest_anchor(q, P)]
       IN  /\ i' = i + 1
           /\ cfr_q' = q
           /\ closest_anchor' = A
           /\ failure_counts' =
                [P \in CfrPrimorials |->
                    IF IsCfrFailure(AbsDiff(A[P], q))
                    THEN failure_counts[P] + 1 ELSE failure_counts[P]]
    /\ UNCHANGED <<fileVars, pc, searchVars, total_law_I_failures, freqVars, violVars,
                   residueVars, mod2310Vars, gapfailVars, law3Vars, gapresVars,
                   cfr_verdict>>

\* run_PAC_CFR_test: the rates and the final conclusion
FinishCfr ==
    /\ pc = "loop" /\ pipeline = "cfr"
    /\ i = loop_end_index(pipeline)
    /\ total_primes_tested > 0
    /\ pc' = "done"
    /\ cfr_verdict' = CfrVerdict(failure_counts)
    /\ UNCHANGED <<fileVars, i, searchVars, total_law_I_failures, freqVars, violVars,
                   residueVars, mod2310Vars, gapfailVars, law3Vars, gapresVars,
                   cfr_q, closest_anchor, failure_counts>>

\* the for loop is exhausted: the script goes on to its report
Finish ==
    /\ pc = "loop" /\ pipeline # "cfr"
    /\ i = loop_end_index(pipeline)
    /\ pc' = "done"
    /\ UNCHANGED <<fileVars, i, searchVars, total_law_I_failures, freqVars, violVars,
                   residueVars, mod2310Vars, gapfailVars, law3Vars,
                   gapresVars, cfrVars>>

Next ==
    \/ Load
    \/ StepFreq
    \/ StepViol
    \/ StepResidue
    \/ StepMod2310Perfect
    \/ StepMod2310Other
    \/ StepGapFail
    \/ StepLaw3
    \/ StepGapRes
    \/ StepCfr
    \/ FinishCfr
    \/ Finish

Spec == Init /\ [][Next]_vars

\* a script that is started runs on: each loop iteration is eventually executed
LiveSpec == Spec /\ WF_vars(Next)

(***************************************************************************)
(* Properties.                                                             *)
(***************************************************************************)
Abs(x) == IF x < 0 THEN -x ELSE x

\* the search variables describe an anchor that went through search and classification
Searched == pc \in {"loop", "done"} /\ verdict # "none"

\* the scripts whose search stores the neighbour of the current anchor in q_prime
QRecorded ==
    \/ pipeline \in {"freq", "viol", "residue", "law3"}
    \/ pipeline = "mod2310" /\ anchor_S_n % 2310 = 0

\* the cap that applies to anchor S in the running script
CapOfAnchor(S) ==
    IF pipeline = "mod2310" /\ S % 2310 = 0 THEN PERFECT_SEARCH_CAP
    ELSE IF pipeline = "law3" THEN LAW3_SEARCH_CAP
    ELSE SEARCH_CAP

NoPrimeWithin(S, cap) ==
    \A d \in 1..cap : ~InPrimeSet(S - d) /\ ~InPrimeSet(S + d)

\* C1: when the search reports a hit, k_min is the smallest distance >= 1 at which
\* S - d or S + d is in the prime set, no member of the set is closer, and the
\* stored neighbour is a member of the set at distance exactly k_min.
C1_NearestPrimeMinimal ==
    (Searched /\ min_distance_k # 0) =>
        /\ min_distance_k >= 1
        /\ InPrimeSet(anchor_S_n - min_distance_k)
              \/ InPrimeSet(anchor_S_n + min_distance_k)
        /\ NoPrimeWithin(anchor_S_n, min_distance_k - 1)
        /\ QRecorded =>
              /\ InPrimeSet(q_prime)
              /\ Abs(q_prime - anchor_S_n) = min_distance_k

\* a hit at a composite distance whose only neighbour is the upper one
C1_Witness ==
    /\ Searched /\ QRecorded
    /\ min_distance_k >= 9
    /\ q_prime = anchor_S_n + min_distance_k
    /\ ~InPrimeSet(anchor_S_n - min_distance_k)

\* C2: at the hit distance the stored neighbour is S - k_min whenever that is in the
\* prime set (also when S + k_min is too) and S + k_min only otherwise; testing the
\* upper candidate first would give the same k_min.
C2_TieBreakLower ==
    (Searched /\ QRecorded /\ min_distance_k # 0) =>
        /\ q_prime = IF InPrimeSet(anchor_S_n - min_distance_k)
                     THEN anchor_S_n - min_distance_k
                     ELSE anchor_S_n + min_distance_k
        /\ SearchUpperFirst(anchor_S_n, 1, CapOfAnchor(anchor_S_n)).k = min_distance_k

\* a tie: both candidates at the hit distance are in the prime set
C2_Witness ==
    /\ Searched /\ QRecorded /\ min_distance_k # 0
    /\ InPrimeSet(anchor_S_n - min_distance_k)
    /\ InPrimeSet(anchor_S_n + min_distance_k)
    /\ q_prime = anchor_S_n - min_distance_k

\* C3: an anchor with a hit is classified success or composite failure, never both or
\* neither; success iff k_min = 1 or k_min is in the prime set; and the two code forms
\* of the test agree for every k >= 1 the search can return.
C3_LawIClassification ==
    /\ \A k \in 1..PERFECT_SEARCH_CAP : (~IsLawISuccess(k)) = IsKComposite(k)
    /\ (Searched /\ min_distance_k >= 1) =>
          /\ verdict \in {"success", "composite_failure"}
          /\ (verdict = "success") = (min_distance_k = 1 \/ InPrimeSet(min_distance_k))
          /\ (verdict = "composite_failure") =
                (min_distance_k # 1 /\ ~InPrimeSet(min_distance_k))

\* a composite failure decided by the 'not is_law_I_success' form
C3_Witness ==
    /\ Searched /\ pipeline = "freq"
    /\ verdict = "composite_failure"
    /\ min_distance_k >= 9

failureBuckets ==
    <<composite_k_counts, p2_failures_by_k, p3_failures_by_k, p4_failures_by_k,
      failures_by_residue, gap_stats_by_k, failures_from_perfect_mod2310>>
violationLists == <<violations_p2, violations_p3, violations_p4, violations_p5>>

KeysAreCompositeFailures(d) == \A k \in DOMAIN d : k > 1 /\ ~InPrimeSet(k)

FailureBucketKeys ==
    /\ KeysAreCompositeFailures(composite_k_counts)
    /\ KeysAreCompositeFailures(p2_failures_by_k)
    /\ KeysAreCompositeFailures(p3_failures_by_k)
    /\ KeysAreCompositeFailures(p4_failures_by_k)
    /\ \A r \in DOMAIN failures_by_residue :
          KeysAreCompositeFailures(failures_by_residue[r])
    /\ KeysAreCompositeFailures(gap_stats_by_k)
    /\ KeysAreCompositeFailures(failures_from_perfect_mod2310)

\* C4: every key of every failure bucket is > 1 and not in the prime set, and an
\* anchor with k_min = 1 changes no failure bucket and not the failure counter.
C4_FailureBucketKeys ==
    /\ []FailureBucketKeys
    /\ [][(i' = i + 1 /\ min_distance_k' = 1) =>
             UNCHANGED <<failureBuckets, total_law_I_failures>>]_vars

\* an anchor at distance 1 was processed after failures had been bucketed
C4_Witness ==
    /\ Searched /\ min_distance_k = 1
    /\ total_law_I_failures >= 2
    /\ \E k \in DOMAIN composite_k_counts : composite_k_counts[k] >= 2

\* C5: in the scripts that search, an anchor with no member of the prime set at any
\* distance 1..cap ends the search
\* with k_min = 0, is neither success nor failure, leaves the failure counter, the
\* failure buckets and the violation lists alone, and the loop goes on.
C5_CapSkip ==
    [][(pipeline \in SearchPipelines /\ i' = i + 1
          /\ NoPrimeWithin(anchor_S_n', CapOfAnchor(anchor_S_n'))) =>
          /\ min_distance_k' = 0
          /\ verdict' = "skipped"
          /\ UNCHANGED <<total_law_I_failures, failureBuckets, violationLists>>
          /\ pc' = "loop"]_vars

\* a skipped anchor with failures already counted, the loop still running
C5_Witness ==
    /\ pc = "loop" /\ verdict = "skipped" /\ min_distance_k = 0
    /\ total_law_I_failures >= 1
    /\ i < loop_end_index(pipeline)
    /\ NoPrimeWithin(anchor_S_n, CapOfAnchor(anchor_S_n))

allStatistics ==
    <<total_law_I_failures, freqVars, violVars, residueVars, mod2310Vars, gapfailVars,
      law3Vars>>

\* C6: a skipped anchor leaves every counter, running sum and bucket of its pipeline as
\* it was before the anchor, total_anchors_analyzed, total_gap_sum_overall and
\* perfect_mod2310_anchors_found included.
C6_SkipExcludedFromStatistics ==
    [][(i' = i + 1 /\ verdict' = "skipped") => UNCHANGED allStatistics]_vars

RECURSIVE SumOver(_, _)
SumOver(f, S) ==
    IF S = {} THEN 0
    ELSE LET x == CHOOSE y \in S : TRUE IN f[x] + SumOver(f, S \ {x})

SumCounts(d) == SumOver(d, DOMAIN d)
SumResidueCounts ==
    SumOver([r \in DOMAIN failures_by_residue |-> SumCounts(failures_by_residue[r])],
            DOMAIN failures_by_residue)
SumGapCounts ==
    SumOver([k \in DOMAIN gap_stats_by_k |-> gap_stats_by_k[k].count],
            DOMAIN gap_stats_by_k)

\* C7: after every anchor the per-key counts of the pipeline's failure tally add up to
\* total_law_I_failures: composite_k_counts, failures_by_residue over the 30 residue
\* classes, and the 'count' fields of gap_stats_by_k.
C7_TallyTotals ==
    /\ pipeline = "freq" => SumCounts(composite_k_counts) = total_law_I_failures
    /\ pipeline = "residue" => SumResidueCounts = total_law_I_failures
    /\ pipeline = "gapfail" => SumGapCounts = total_law_I_failures

\* a residue class that holds two keys, one of them counted twice
C7_Witness ==
    /\ pipeline = "residue"
    /\ \E r \in DOMAIN failures_by_residue :
          /\ Cardinality(DOMAIN failures_by_residue[r]) >= 2
          /\ \E k \in DOMAIN failures_by_residue[r] : failures_by_residue[r][k] >= 2

Primorials == {6, 30, 210, 2310}
OddPrimeFactors == [M \in Primorials |-> {p \in AllPrimes : p > 2 /\ M % p = 0}]
SharesOddFactor(k, M) == \E p \in OddPrimeFactors[M] : k % p = 0

NoDuplicateEvents(list) ==
    \A a, b \in 1..Len(list) : a # b => list[a].n_index # list[b].n_index

\* C9: an anchor's event is appended to the violation list of modulus M exactly when
\* it is a composite failure, S_n mod M = 0 and k_min is divisible by an odd prime
\* factor of M; nothing else changes a list, and no event is in a list twice.
C9_ViolationRecording ==
    /\ [](/\ NoDuplicateEvents(violations_p2) /\ NoDuplicateEvents(violations_p3)
          /\ NoDuplicateEvents(violations_p4) /\ NoDuplicateEvents(violations_p5))
    /\ [][LET ev == failure_event(i, anchor_S_n', q_prime', min_distance_k')
              Forbidden(M) ==
                  /\ i' = i + 1
                  /\ verdict' = "composite_failure"
                  /\ anchor_S_n' % M = 0
                  /\ SharesOddFactor(min_distance_k', M)
              Rule(old, new, M) == new = IF Forbidden(M) THEN Append(old, ev) ELSE old
          IN  /\ IF pipeline = "viol"
                 THEN /\ Rule(violations_p2, violations_p2', 6)
                      /\ Rule(violations_p3, violations_p3', 30)
                      /\ Rule(violations_p4, violations_p4', 210)
                 ELSE UNCHANGED <<violations_p2, violations_p3, violations_p4>>
              /\ IF pipeline = "mod2310"
                 THEN Rule(violations_p5, violations_p5', 2310)
                 ELSE UNCHANGED violations_p5]_vars

\* one failure at an anchor divisible by 210 with k = 25: recorded for 30 and 210, not for 6
C9_Witness ==
    /\ pipeline = "viol"
    /\ violations_p2 = <<>>
    /\ Len(violations_p3) = 1 /\ Len(violations_p4) = 1
    /\ violations_p3[1].k_composite = 25
    /\ 25 \in DOMAIN p2_failures_by_k

\* the largest value the last search looked up in the prime set
LargestQueried ==
    IF min_distance_k = 0 THEN anchor_S_n + CapOfAnchor(anchor_S_n)
    ELSE IF pipeline # "freq" /\ InPrimeSet(anchor_S_n - min_distance_k)
    THEN (IF min_distance_k = 1 THEN anchor_S_n - 1 ELSE anchor_S_n + min_distance_k - 1)
    ELSE anchor_S_n + min_distance_k

\* C10: no pipeline looks up a value above the largest loaded prime: an anchor with
\* S + cap above it is never searched (the run aborts instead).
C10_OracleBound ==
    Searched =>
        /\ LargestQueried <= max_prime_in_set
        /\ anchor_S_n + CapOfAnchor(anchor_S_n) <= max_prime_in_set

\* the largest cap a search of the running script can use
LargestCap ==
    IF pipeline = "mod2310" THEN PERFECT_SEARCH_CAP
    ELSE IF pipeline = "law3" THEN LAW3_SEARCH_CAP
    ELSE SEARCH_CAP

\* the loaded list does not reach the last anchor of the index range plus the cap
InsufficientData ==
    \/ LenPrimeList < required_primes(pipeline)
    \/ not_enough_for_lookups(pipeline)
    \/ anchor_at(loop_end_index(pipeline) - 1) + LargestCap > max_prime_in_set

statisticsAtStart ==
    /\ total_law_I_failures = 0
    /\ composite_k_counts = <<>>
    /\ p2_failures_by_k = <<>> /\ p3_failures_by_k = <<>> /\ p4_failures_by_k = <<>>
    /\ violations_p2 = <<>> /\ violations_p3 = <<>> /\ violations_p4 = <<>>
    /\ \A r \in DOMAIN failures_by_residue : failures_by_residue[r] = <<>>
    /\ perfect_mod2310_anchors_found = 0
    /\ failures_from_perfect_mod2310 = <<>> /\ violations_p5 = <<>>
    /\ gap_stats_by_k = <<>> /\ total_gap_sum_overall = 0 /\ total_anchors_analyzed = 0
    /\ max_r_observed = 0 /\ law_III_failures = <<>> /\ correlation_data = <<>>

\* C11: a run whose prime list does not cover the last anchor plus the cap never
\* enters the main loop, and at an abort no anchor has been searched and no bucket
\* or counter has been modified.
C11_InsufficiencyBeforeLoop ==
    /\ InsufficientData => pc \in {"load", "fatal"}
    /\ pc = "fatal" => (verdict = "none" /\ statisticsAtStart)

\* d is 1 or a member of the prime set
CleanDistance(d) == d = 1 \/ InPrimeSet(d)
CleanPrev(n, q, r) == CleanDistance(AbsDiff(anchor_at(n - r), q))
CleanNext(n, q, r) == CleanDistance(AbsDiff(anchor_at(n + r), q))

RowIsCorrectionResult(e) ==
    /\ e.Sn = anchor_at(e.n_index)
    /\ InPrimeSet(e.q_prime)
    /\ AbsDiff(e.Sn, e.q_prime) = e.k_composite
    /\ e.k_composite > 1 /\ ~InPrimeSet(e.k_composite)
    /\ e.fix_radius_r \in 1..MAX_LAW_III_RADIUS
    /\ CleanPrev(e.n_index, e.q_prime, e.fix_radius_r)
          \/ CleanNext(e.n_index, e.q_prime, e.fix_radius_r)
    /\ \A r \in 1..(e.fix_radius_r - 1) :
          ~CleanPrev(e.n_index, e.q_prime, r) /\ ~CleanNext(e.n_index, e.q_prime, r)
    /\ e.S_fix = IF CleanPrev(e.n_index, e.q_prime, e.fix_radius_r)
                 THEN anchor_at(e.n_index - e.fix_radius_r)
                 ELSE anchor_at(e.n_index + e.fix_radius_r)

\* C12: every recorded row has the smallest r in 1..MAX_LAW_III_RADIUS at which the
\* distance from S_{n-r} or S_{n+r} to q is 1 or in the prime set; S_fix is S_{n-r}
\* when that one is clean and S_{n+r} otherwise; q is the neighbour the main search
\* stored for the anchor.
C12_CorrectionRadius ==
    /\ \A j \in 1..Len(correlation_data) : RowIsCorrectionResult(correlation_data[j])
    /\ (pipeline = "law3" /\ Searched /\ verdict = "composite_failure") =>
          LET e == correlation_data[Len(correlation_data)]
          IN  /\ Len(correlation_data) >= 1
              /\ e.n_index = i - 1
              /\ e.Sn = anchor_S_n
              /\ e.q_prime = q_prime
              /\ e.k_composite = min_distance_k

\* a row fixed at r = 2 by S_{n+2}, after a row where both sides were clean at r = 1
C12_Witness ==
    /\ \E j \in 1..Len(correlation_data) :
          LET e == correlation_data[j]
          IN  /\ e.fix_radius_r = 2
              /\ e.S_fix = anchor_at(e.n_index + 2)
    /\ \E j \in 1..Len(correlation_data) :
          LET e == correlation_data[j]
          IN  /\ e.fix_radius_r = 1
              /\ e.S_fix = anchor_at(e.n_index - 1)
              /\ CleanNext(e.n_index, e.q_prime, 1)

NoCleanWithinRadius(n, q) ==
    \A r \in 1..MAX_LAW_III_RADIUS : ~CleanPrev(n, q, r) /\ ~CleanNext(n, q, r)

\* the run stopped at index i: that index is the only Law III failure, it has no row,
\* and no anchor above it was recorded
StoppedAtEvent ==
    pc = "falsified" =>
        /\ pipeline = "law3"
        /\ verdict = "composite_failure" /\ anchor_S_n = anchor_at(i)
        /\ law_III_failures = <<i>>
        /\ \A j \in 1..Len(correlation_data) : correlation_data[j].n_index < i

\* C13: a composite failure with no clean distance at any r in 1..MAX_LAW_III_RADIUS
\* stops the run at that event: its index goes to law_III_failures, no row is written
\* for it, and no further step is taken; a main-search cap hit only skips the anchor.
C13_LawIIICapFatal ==
    /\ []StoppedAtEvent
    /\ [][pc # "falsified"]_vars
    /\ [][(pipeline = "law3" /\ pc = "loop" /\ i < loop_end_index(pipeline)) =>
            /\ (verdict' = "composite_failure" /\ NoCleanWithinRadius(i, q_prime')) =>
                  /\ pc' = "falsified" /\ i' = i
                  /\ law_III_failures' = Append(law_III_failures, i)
                  /\ correlation_data' = correlation_data
            /\ (verdict' = "composite_failure" /\ ~NoCleanWithinRadius(i, q_prime')) =>
                  /\ pc' = "loop" /\ i' = i + 1
                  /\ law_III_failures' = law_III_failures
                  /\ Len(correlation_data') = Len(correlation_data) + 1
            /\ verdict' = "skipped" =>
                  /\ pc' = "loop" /\ i' = i + 1
                  /\ UNCHANGED <<total_law_I_failures, law3Vars>>]_vars

\* the run stopped on an un-correctable event with rows already written and anchors
\* of the range still unprocessed
C13_Witness ==
    /\ pc = "falsified"
    /\ Len(law_III_failures) = 1
    /\ Len(correlation_data) >= 2
    /\ i + 1 < loop_end_index(pipeline)
    /\ NoCleanWithinRadius(i, q_prime)

\* the cap script p applies to anchor S
CapIn(p, S) ==
    IF p = "mod2310" /\ S % 2310 = 0 THEN PERFECT_SEARCH_CAP
    ELSE IF p = "law3" THEN LAW3_SEARCH_CAP
    ELSE SEARCH_CAP

\* k_min and Law I verdict computed for anchor S by the search and the test of script p
CoreResult(p, S) ==
    LET k == IF p = "freq" THEN SearchCheckFirst(S, 1).k
             ELSE IF p = "mod2310"
             THEN (IF S % 2310 = 0 THEN SearchTestFirst(S, 1, PERFECT_SEARCH_CAP).k
                   ELSE SearchNoNeighbor(S, 1))
             ELSE IF p = "law3" THEN SearchLowerGuarded(S, 1, LAW3_SEARCH_CAP).k
             ELSE SearchTestFirst(S, 1, SEARCH_CAP).k
        failed == IF p = "freq" THEN ~IsLawISuccess(k) ELSE IsKComposite(k)
    IN  [k |-> k,
         verdict |-> IF k = 0 THEN "skipped"
                     ELSE IF failed THEN "composite_failure" ELSE "success"]

LastResult == [k |-> min_distance_k, verdict |-> verdict]
Smaller(a, b) == IF a < b THEN a ELSE b
Larger(a, b) == IF a < b THEN b ELSE a

FirstIndex ==
    IF pipeline = "freq" THEN start_index
    ELSE IF pipeline = "law3" THEN START_INDEX + MAX_LAW_III_RADIUS
    ELSE IF pipeline = "cfr" THEN 0
    ELSE START_INDEX
EndIndex ==
    IF pipeline = "freq" THEN 1 + MAX_PRIME_PAIRS_TO_TEST
    ELSE IF pipeline = "cfr" THEN total_primes_tested
    ELSE FirstIndex + MAX_PRIME_PAIRS_TO_TEST

RowsInIndexOrder ==
    /\ \A a, b \in 1..Len(correlation_data) :
          a < b => correlation_data[a].n_index < correlation_data[b].n_index
    /\ \A a \in 1..Len(correlation_data) :
          /\ correlation_data[a].n_index >= FirstIndex
          /\ correlation_data[a].n_index < i

EnumerationState ==
    /\ pc = "loop" => (i >= FirstIndex /\ i <= EndIndex)
    /\ pc = "done" => i = EndIndex
    /\ RowsInIndexOrder

\* C15: the loop index starts at the first index of the range and only ever grows by
\* one; every search is the search of prime_list[i] + prime_list[i + 1] for the current
\* index; a normal end has consumed the whole range; statistics change only in a step
\* that consumes an index, and the rows of the correction-radius script are in
\* strictly increasing index order (no anchor is handled twice).
C15_AnchorEnumeration ==
    /\ []EnumerationState
    /\ [][/\ i' # i =>
              \/ pc = "load" /\ i' = FirstIndex
              \/ pc = "loop" /\ i' = i + 1
          /\ searchVars' # searchVars =>
              /\ pc = "loop"
              /\ anchor_S_n' = prime_list(i) + prime_list(i + 1)
              /\ i' = i + 1 \/ pc' \in {"fatal", "falsified"}
          /\ allStatistics' # allStatistics =>
              /\ searchVars' # searchVars
              /\ i' = i + 1 \/ pc' = "falsified"
          /\ Len(correlation_data') > Len(correlation_data) =>
              /\ Len(correlation_data') = Len(correlation_data) + 1
              /\ correlation_data'[Len(correlation_data')].n_index = i
              /\ i' = i + 1]_vars

\* a complete pass of the correction-radius script whose rows used a look-back
\* (S_{n-1}) and a look-ahead (S_{n+1})
C15_Witness ==
    /\ pipeline = "law3" /\ pc = "done" /\ i = EndIndex
    /\ \E a \in 1..Len(correlation_data) :
          correlation_data[a].S_fix = anchor_at(correlation_data[a].n_index - 1)
    /\ \E a \in 1..Len(correlation_data) :
          correlation_data[a].S_fix = anchor_at(correlation_data[a].n_index + 1)

\* C16: every skipped anchor is counted: the step that skips an anchor changes a
\* count kept by the pipeline.
C16_SkipsCounted ==
    [][(pc = "loop" /\ i' = i + 1 /\ verdict' = "skipped") =>
          allStatistics' # allStatistics]_vars

\* C17: the search tests exactly the distances 1..cap: a nearest member at distance
\* cap is found with k_min = cap, none within the cap gives a skip, and the
\* check-before-test and the increment-then-check loops return the same result.
C17_CapBoundary ==
    Searched =>
        LET S == anchor_S_n
            C == CapOfAnchor(anchor_S_n)
        IN  /\ (min_distance_k = 0) = NoPrimeWithin(S, C)
            /\ min_distance_k \in 0..C
            /\ (NoPrimeWithin(S, C - 1) /\ ~NoPrimeWithin(S, C)) => min_distance_k = C
            /\ SearchCheckFirst(S, 1) = SearchTestFirst(S, 1, SEARCH_CAP)
            /\ C = SEARCH_CAP => SearchCheckFirst(S, 1).k = min_distance_k

\* the frequency tally found a neighbour at distance exactly the cap
C17_Witness ==
    /\ pipeline = "freq" /\ Searched
    /\ min_distance_k = SEARCH_CAP
    /\ NoPrimeWithin(anchor_S_n, SEARCH_CAP - 1)

Ended == pc \in {"done", "fatal", "falsified"}

SearchesBounded ==
    /\ Searched => min_distance_k <= CapOfAnchor(anchor_S_n)
    /\ max_r_observed <= MAX_LAW_III_RADIUS
    /\ \A j \in 1..Len(correlation_data) :
          correlation_data[j].fix_radius_r <= MAX_LAW_III_RADIUS

IsFrequencyTallyStep == pipeline = "freq" /\ pc = "loop" /\ i' = i + 1

\* C19: in the frequency tally a composite failure at distance k adds exactly 1 to
\* composite_k_counts[k] and to total_law_I_failures and leaves every other key as
\* it was; a success (or a skip) leaves the tally and the counter unchanged.
C19_FrequencyTallyFrame ==
    [][IsFrequencyTallyStep =>
          IF verdict' = "composite_failure"
          THEN LET k == min_distance_k'
                   before == IF k \in DOMAIN composite_k_counts
                             THEN composite_k_counts[k] ELSE 0
               IN  /\ total_law_I_failures' = total_law_I_failures + 1
                   /\ DOMAIN composite_k_counts' = DOMAIN composite_k_counts \cup {k}
                   /\ composite_k_counts'[k] = before + 1
                   /\ \A x \in DOMAIN composite_k_counts \ {k} :
                         composite_k_counts'[x] = composite_k_counts[x]
          ELSE UNCHANGED <<total_law_I_failures, composite_k_counts>>]_vars

\* the last anchor entered a new key into a tally that holds another key counted twice
C19_Witness ==
    /\ pipeline = "freq" /\ Searched /\ verdict = "composite_failure"
    /\ min_distance_k \in DOMAIN composite_k_counts
    /\ composite_k_counts[min_distance_k] = 1
    /\ \E x \in DOMAIN composite_k_counts :
          x # min_distance_k /\ composite_k_counts[x] >= 2

\* every line of the file after the first is odd (a listing of primes)
OddUniverse == extra_line = 0 \/ extra_line % 2 = 1

OddCompositeKeys(d) == \A k \in DOMAIN d : k % 2 = 1 /\ k >= 9

\* C20: over a listing of primes every processed anchor has index >= 1 and is even,
\* every k_min found is odd, every composite-failure k is odd and >= 9, and in the
\* mod-30 residue tally the odd residue classes stay empty.
C20_Parity ==
    OddUniverse =>
        /\ Searched =>
              /\ i - 1 >= 1
              /\ anchor_S_n % 2 = 0
              /\ min_distance_k # 0 => min_distance_k % 2 = 1
              /\ verdict = "composite_failure" =>
                    (min_distance_k % 2 = 1 /\ min_distance_k >= 9)
        /\ \A r \in DOMAIN failures_by_residue :
              /\ r % 2 = 1 => failures_by_residue[r] = <<>>
              /\ OddCompositeKeys(failures_by_residue[r])
        /\ OddCompositeKeys(composite_k_counts)
        /\ OddCompositeKeys(gap_stats_by_k)
        /\ OddCompositeKeys(p2_failures_by_k)

\* the residue tally holds the smallest composite distance, 9, in an even class
C20_Witness ==
    /\ OddUniverse /\ pipeline = "residue" /\ Searched
    /\ verdict = "composite_failure" /\ min_distance_k = 9
    /\ anchor_S_n % 30 \in {r \in 0..29 : r % 2 = 0}
    /\ 9 \in DOMAIN failures_by_residue[anchor_S_n % 30]

(***************************************************************************)
(* Range partitioning of the frequency tally.                              *)
(***************************************************************************)
\* the failure key of every index of the configured range (0: no composite failure)
FreqFailureKeys ==
    {<<j, LET r == CoreResult("freq", anchor_at(j))
          IN  IF r.verdict = "composite_failure" THEN r.k ELSE 0>> :
        j \in 1..MAX_PRIME_PAIRS_TO_TEST}

\* the indices at which the per-anchor bound check of the frequency script aborts
FreqAbortIndices ==
    {j \in 1..MAX_PRIME_PAIRS_TO_TEST : anchor_at(j) + SEARCH_CAP > max_prime_in_set}

\* where a pass over [a, c) stops: at c, or at the first index that aborts it
PassEnd(aborts, a, c) ==
    LET hits == {j \in aborts : j >= a /\ j < c}
    IN  IF hits = {} THEN c ELSE CHOOSE j \in hits : \A m \in hits : j <= m

\* the failures a pass over [a, c) meets, and the tally a pass with fresh buckets
\* makes of them
PassFailures(keys, aborts, a, c) ==
    LET stop == PassEnd(aborts, a, c)
    IN  {e \in keys : e[1] >= a /\ e[1] < stop /\ e[2] # 0}
PassTally(keys, aborts, a, c) ==
    LET F == PassFailures(keys, aborts, a, c)
    IN  [k \in {e[2] : e \in F} |-> Cardinality({e \in F : e[2] = k})]

\* key-wise sum of two tallies
MergeTallies(d, e) ==
    [k \in DOMAIN d \cup DOMAIN e |->
        (IF k \in DOMAIN d THEN d[k] ELSE 0) + (IF k \in DOMAIN e THEN e[k] ELSE 0)]

PassOver ==
    /\ pipeline = "freq" /\ pc \in {"done", "fatal"}
    /\ i >= start_index

RECURSIVE SumRange(_, _, _)
SumRange(f, lo, hi) ==
    IF lo > hi THEN 0
    ELSE IF lo = hi THEN f[lo]
    ELSE LET mid == (lo + hi) \div 2
         IN  SumRange(f, lo, mid) + SumRange(f, mid + 1, hi)

\* sum of count, and of gap_sum, over all residues 0..P-1 of a gap table
TotalCount(d, P) == SumRange([r \in 0..(P - 1) |-> d[r].count], 0, P - 1)
TotalGapSum(d, P) == SumRange([r \in 0..(P - 1) |-> d[r].gap_sum], 0, P - 1)

\* table d1 is table d with the anchor of residue r and gap g added, and nothing else
OneBucketAdded(d, d1, r, g) ==
    /\ d1[r].count = d[r].count + 1
    /\ d1[r].gap_sum = d[r].gap_sum + g
    /\ \A x \in DOMAIN d : x # r => d1[x] = d[x]
    /\ DOMAIN d1 = DOMAIN d

GapResidueTotals ==
    pipeline = "gapres" =>
        /\ TotalCount(gap_stats_mod6, 6) = total_anchors_analyzed
        /\ TotalCount(gap_stats_mod30, 30) = total_anchors_analyzed
        /\ TotalCount(gap_stats_mod210, 210) = total_anchors_analyzed
        /\ TotalGapSum(gap_stats_mod30, 30) = TotalGapSum(gap_stats_mod6, 6)
        /\ TotalGapSum(gap_stats_mod210, 210) = TotalGapSum(gap_stats_mod6, 6)

\* C22: the gap-vs-residue script tallies every anchor, without any search or Law I
\* test: each iteration adds 1 to the count and p_{n+1} - p_n to the gap_sum of the
\* bucket S_n mod P of each modulus P in {6, 30, 210} and changes no other bucket;
\* in every state the counts of each modulus add up to total_anchors_analyzed and
\* the gap sums of the three moduli have the same total.
C22_GapResidueTally ==
    /\ []GapResidueTotals
    /\ [][(pipeline = "gapres" /\ pc = "loop" /\ i' # i) =>
            LET S == prime_list(i) + prime_list(i + 1)
                g == prime_list(i + 1) - prime_list(i)
            IN  /\ i' = i + 1
                /\ total_anchors_analyzed' = total_anchors_analyzed + 1
                /\ OneBucketAdded(gap_stats_mod6, gap_stats_mod6', S % 6, g)
                /\ OneBucketAdded(gap_stats_mod30, gap_stats_mod30', S % 30, g)
                /\ OneBucketAdded(gap_stats_mod210, gap_stats_mod210', S % 210, g)
                /\ <<verdict, min_distance_k, total_law_I_failures>>' =
                       <<verdict, min_distance_k, total_law_I_failures>>]_vars

\* a complete pass that filled a bucket of every modulus more than once and more
\* than one bucket of the smallest modulus
C22_Witness ==
    /\ pipeline = "gapres" /\ pc = "done"
    /\ total_anchors_analyzed = MAX_PRIME_PAIRS_TO_TEST
    /\ \E r \in 0..209 : gap_stats_mod210[r].count >= 2
    /\ \E r \in 0..29 : gap_stats_mod30[r].count >= 2
    /\ \E r1, r2 \in 0..5 :
          r1 # r2 /\ gap_stats_mod6[r1].count >= 2 /\ gap_stats_mod6[r2].count >= 2

(***************************************************************************)
(* Telescoping gap sums.                                                   *)
(***************************************************************************)
\* C29: when a gap-vs-residue pass is complete, the gap sums of each modulus add up
\* to prime_list[END] - prime_list[START_INDEX]; when a gap-failure correlation pass
\* is complete, total_gap_sum_overall is that same difference and
\* total_anchors_analyzed is END - START_INDEX, skipped anchors included.
C29_TelescopingGapSum ==
    LET first == loop_start_index(pipeline)
        end == loop_end_index(pipeline)
    IN  /\ (pipeline = "gapres" /\ pc = "done") =>
              /\ TotalGapSum(gap_stats_mod6, 6) = prime_list(end) - prime_list(first)
              /\ TotalGapSum(gap_stats_mod30, 30) = prime_list(end) - prime_list(first)
              /\ TotalGapSum(gap_stats_mod210, 210) = prime_list(end) - prime_list(first)
              /\ total_anchors_analyzed = end - first
        /\ (pipeline = "gapfail" /\ pc = "done") =>
              /\ total_gap_sum_overall = prime_list(end) - prime_list(first)
              /\ total_anchors_analyzed = end - first

\* a complete gap-vs-residue pass whose last read, prime_list[END], is the trailing
\* line of the file
C29_Witness ==
    /\ pipeline = "gapres" /\ pc = "done"
    /\ extra_line # 0
    /\ prime_list(loop_end_index(pipeline)) = extra_line
    /\ TotalGapSum(gap_stats_mod210, 210) > extra_line - PrimeAt[file_len - 1]

(***************************************************************************)
(* Gap-by-failure-type accumulator.                                        *)
(***************************************************************************)
\* the composite failures among the anchors processed so far by the gap-failure
\* script, as pairs <<index, k_min>>
GapFailuresSoFar ==
    {e \in {<<j, CoreResult("gapfail", anchor_at(j))>> : j \in START_INDEX..(i - 1)} :
        e[2].verdict = "composite_failure"}

GapOfIndex == [j \in 0..(LenPrimeList - 2) |-> prime_list(j + 1) - prime_list(j)]

GapStatsAreTheFailures ==
    (pipeline = "gapfail" /\ pc \in {"loop", "done"}) =>
        LET F == GapFailuresSoFar
        IN  /\ DOMAIN gap_stats_by_k = {e[2].k : e \in F}
            /\ \A k \in DOMAIN gap_stats_by_k :
                  LET at == {e[1] : e \in {x \in F : x[2].k = k}}
                  IN  /\ gap_stats_by_k[k].count >= 1
                      /\ gap_stats_by_k[k].count = Cardinality(at)
                      /\ gap_stats_by_k[k].gap_sum = SumOver(GapOfIndex, at)

\* C23: in every state of the gap-failure script the keys of gap_stats_by_k are the
\* k_min of the composite failures processed so far, count of a key is the number
\* of those failures (at least 1) and gap_sum the sum of p_{n+1} - p_n over them;
\* a step changes the table only at a composite failure, where count and gap_sum
\* of the key k_min change together (by 1 and by the gap) and no other key changes.
C23_GapByFailureType ==
    /\ []GapStatsAreTheFailures
    /\ [][(pipeline = "gapfail" /\ gap_stats_by_k' # gap_stats_by_k) =>
            LET k == min_distance_k'
                g == prime_list(i + 1) - prime_list(i)
                old == IF k \in DOMAIN gap_stats_by_k THEN gap_stats_by_k[k]
                       ELSE [count |-> 0, gap_sum |-> 0]
            IN  /\ verdict' = "composite_failure" /\ i' = i + 1
                /\ total_law_I_failures' = total_law_I_failures + 1
                /\ DOMAIN gap_stats_by_k' = DOMAIN gap_stats_by_k \cup {k}
                /\ gap_stats_by_k'[k] =
                       [count |-> old.count + 1, gap_sum |-> old.gap_sum + g]
                /\ \A x \in DOMAIN gap_stats_by_k :
                       x # k => gap_stats_by_k'[x] = gap_stats_by_k[x]]_vars
    /\ [][(pipeline = "gapfail" /\ verdict' = "composite_failure" /\ i' = i + 1) =>
            gap_stats_by_k' # gap_stats_by_k]_vars

\* the last anchor was a composite failure that raised an existing key to a count
\* of 2 or more while another key is present
C23_Witness ==
    /\ pipeline = "gapfail" /\ Searched /\ verdict = "composite_failure"
    /\ min_distance_k \in DOMAIN gap_stats_by_k
    /\ gap_stats_by_k[min_distance_k].count >= 2
    /\ Cardinality(DOMAIN gap_stats_by_k) >= 2

(***************************************************************************)
(* Closest primorial anchor.                                               *)
(***************************************************************************)
\* A is a multiple of P closest to q, the upper one when q is midway
IsClosestAnchor(A, q, P) ==
    /\ A % P = 0
    /\ 2 * AbsDiff(A, q) <= P
    /\ \A m \in (q - P)..(q + P) : m % P = 0 => AbsDiff(m, q) >= AbsDiff(A, q)
    /\ 2 * AbsDiff(A, q) = P => A > q

\* C24: get_closest_anchor(q, P) is, for every q >= 0 and P in {6, 30, 210}, a
\* multiple of P at distance at most P/2 from q with no multiple of P strictly
\* closer, and the upper multiple when q is midway between two; a prime q > 7 is
\* never midway.  Stated of the anchors the CFR loop computed for the value q it
\* just read, and of the function over 0..SieveMax when the script starts.
C24_ClosestAnchor ==
    /\ (pipeline = "cfr" /\ i > 0) =>
          \A P \in CfrPrimorials :
              /\ closest_anchor[P] = get_closest_anchor(cfr_q, P)
              /\ IsClosestAnchor(closest_anchor[P], cfr_q, P)
              /\ (cfr_q \in AllPrimes /\ cfr_q > 7) =>
                    2 * AbsDiff(closest_anchor[P], cfr_q) # P
    /\ (pipeline = "cfr" /\ pc = "load" /\ extra_line = 0) =>
          \A P \in CfrPrimorials : \A x \in 0..SieveMax :
              /\ IsClosestAnchor(get_closest_anchor(x, P), x, P)
              /\ (x \in AllPrimes /\ x > 7) =>
                    2 * AbsDiff(get_closest_anchor(x, P), x) # P

\* the loop read the trailing line 4605, midway between two multiples of 6 and
\* between two multiples of 30: the upper multiples were returned
C24_Witness ==
    /\ pipeline = "cfr" /\ i > 0
    /\ cfr_q \notin AllPrimes
    /\ closest_anchor[6] - cfr_q = 3
    /\ closest_anchor[30] - cfr_q = 15
    /\ closest_anchor[210] % 210 = 0

(***************************************************************************)
(* Degenerate counts of the CFR script.                                    *)
(***************************************************************************)
\* every value the CFR loop has read so far is a prime (a non-prime line is the
\* last line of the file)
OnlyPrimesTested == i = 0 \/ cfr_q \in AllPrimes

\* C26: in the CFR script a prime q > 7 is at distance 1 from its closest multiple
\* of 6 and at distance 1, 7, 11 or 13 from its closest multiple of 30;
\* failure_counts[6] is 0 in every state, failure_counts[30] is 0 as long as only
\* primes were read, and no run ends with the verdict CONJECTURE VERIFIED: every
\* completed run reports CONJECTURE FALSIFIED.
C26_CfrDegenerate ==
    pipeline = "cfr" =>
        /\ (i > 0 /\ cfr_q \in AllPrimes) =>
              /\ AbsDiff(closest_anchor[6], cfr_q) = 1
              /\ AbsDiff(closest_anchor[30], cfr_q) \in {1, 7, 11, 13}
        /\ failure_counts[6] = 0
        /\ OnlyPrimesTested => failure_counts[30] = 0
        /\ cfr_verdict # "CONJECTURE VERIFIED"
        /\ pc = "done" => cfr_verdict = "CONJECTURE FALSIFIED"
        /\ pc # "done" => cfr_verdict = "none"

\* a completed run over primes only, the prime set holding 7, 11 and 13, in which
\* the three counts are equal and the comparison failed
C26_Witness ==
    /\ pipeline = "cfr" /\ pc = "done"
    /\ extra_line = 0
    /\ i = total_primes_tested /\ i > 300
    /\ InCfrPrimeSet(7) /\ InCfrPrimeSet(11) /\ InCfrPrimeSet(13)
    /\ failure_counts[30] = failure_counts[6]
    /\ cfr_verdict = "CONJECTURE FALSIFIED"

(***************************************************************************)
(* Records of the correction-radius script.                                *)
(***************************************************************************)
RecordIsConsistent(e) ==
    /\ e.q_prime \in {e.Sn - e.k_composite, e.Sn + e.k_composite}
    /\ e.Sn_mod6 = e.Sn % 6 /\ e.Sn_mod30 = e.Sn % 30 /\ e.Sn_mod210 = e.Sn % 210
    /\ e.Sfix_mod6 = e.S_fix % 6 /\ e.Sfix_mod30 = e.S_fix % 30
    /\ e.Sfix_mod210 = e.S_fix % 210
    /\ 1 <= e.fix_radius_r /\ e.fix_radius_r <= MAX_LAW_III_RADIUS
    /\ e.S_fix \in {anchor_at(e.n_index - e.fix_radius_r),
                    anchor_at(e.n_index + e.fix_radius_r)}
    /\ AbsDiff(e.S_fix, e.q_prime) = 1 \/ IsPrimeNumber(AbsDiff(e.S_fix, e.q_prime))

\* C25: every row of correlation_data has q_prime = Sn - k_composite or
\* Sn + k_composite, the residues of Sn and of S_fix modulo 6, 30 and 210 in its
\* six residue fields, a fix radius r in 1..MAX_LAW_III_RADIUS, S_fix equal to
\* S_{n-r} or S_{n+r}, and |S_fix - q_prime| equal to 1 or a prime; the rows are in
\* strictly increasing n_index and a step appends at most one row, for the anchor
\* it processed.
C25_RecordConsistency ==
    /\ [](\A a \in 1..Len(correlation_data) :
            /\ RecordIsConsistent(correlation_data[a])
            /\ \A b \in 1..(a - 1) :
                  correlation_data[b].n_index < correlation_data[a].n_index)
    /\ [][correlation_data' # correlation_data =>
            /\ pipeline = "law3"
            /\ \E e \in {event_data(i, anchor_S_n', q_prime', min_distance_k',
                                     Law3Search(i, q_prime', 1))} :
                  correlation_data' = Append(correlation_data, e)
            /\ anchor_S_n' = anchor_at(i)]_vars

\* three rows, with a fix at radius 1 and one at radius 2, whose S_fix has residues
\* that differ from those of the failing anchor
C25_Witness ==
    /\ pipeline = "law3" /\ Len(correlation_data) >= 3
    /\ \E a, b \in 1..Len(correlation_data) :
          /\ correlation_data[a].fix_radius_r = 1
          /\ correlation_data[b].fix_radius_r = 2
          /\ correlation_data[b].Sfix_mod6 # correlation_data[b].Sn_mod6
          /\ correlation_data[a].Sfix_mod30 # correlation_data[a].Sn_mod30

(***************************************************************************)
(* Nesting of the filters of the violation detector.                       *)
(***************************************************************************)
CountOf(d, k) == IF k \in DOMAIN d THEN d[k] ELSE 0

\* the composite failures among the anchors processed so far by the violation
\* detector, as pairs <<index, k_min>>
ViolFailuresSoFar ==
    {<<e[1], e[2].k>> :
        e \in {x \in {<<j, CoreResult("viol", anchor_at(j))>> : j \in START_INDEX..(i - 1)} :
                  x[2].verdict = "composite_failure"}}

IsListed(ev, events) == \E b \in 1..Len(events) : events[b] = ev

\* C27: in every state of the violation detector, for every k,
\* p4_failures_by_k[k] <= p3_failures_by_k[k] <= p2_failures_by_k[k] <= the number
\* of composite failures with that k processed so far (a missing key counting 0);
\* every event of violations_p2 whose S_n is divisible by 30 is an event of
\* violations_p3 and every event of violations_p3 whose S_n is divisible by 210 is
\* an event of violations_p4.
C27_FilterNesting ==
    (pipeline = "viol" /\ pc \in {"loop", "done"}) =>
        LET F == ViolFailuresSoFar
        IN  /\ \A k \in DOMAIN p2_failures_by_k \cup DOMAIN p3_failures_by_k
                        \cup DOMAIN p4_failures_by_k :
                  /\ CountOf(p4_failures_by_k, k) <= CountOf(p3_failures_by_k, k)
                  /\ CountOf(p3_failures_by_k, k) <= CountOf(p2_failures_by_k, k)
                  /\ CountOf(p2_failures_by_k, k) <= Cardinality({e \in F : e[2] = k})
            /\ \A a \in 1..Len(violations_p2) :
                  violations_p2[a].S_n % 30 = 0 => IsListed(violations_p2[a], violations_p3)
            /\ \A a \in 1..Len(violations_p3) :
                  violations_p3[a].S_n % 210 = 0 => IsListed(violations_p3[a], violations_p4)

\* the three filters have tallied failures, a key of the mod-6 tally has more
\* failures than the mod-30 tally gives it, an event of violations_p2 at an anchor
\* divisible by 30 and an event of violations_p3 at an anchor divisible by 210 are
\* listed, next to an event of violations_p2 at an anchor not divisible by 30
C27_Witness ==
    /\ pipeline = "viol" /\ pc \in {"loop", "done"}
    /\ DOMAIN p4_failures_by_k # {}
    /\ \E k \in DOMAIN p2_failures_by_k :
          CountOf(p3_failures_by_k, k) < p2_failures_by_k[k]
    /\ \E a \in 1..Len(violations_p2) : violations_p2[a].S_n % 30 = 0
    /\ \E a \in 1..Len(violations_p3) : violations_p3[a].S_n % 210 = 0
    /\ \E a \in 1..Len(violations_p2) : violations_p2[a].S_n % 30 # 0

(***************************************************************************)
(* Bookkeeping of the correction-radius script.                            *)
(***************************************************************************)
RecordedRadii == {correlation_data[a].fix_radius_r : a \in 1..Len(correlation_data)}
LargestRecordedRadius ==
    IF RecordedRadii = {} THEN 0
    ELSE CHOOSE m \in RecordedRadii : \A r \in RecordedRadii : r <= m

\* C28: in every state of the correction-radius script (each step processes one
\* anchor completely) total_law_I_failures = len(correlation_data) +
\* len(law_III_failures), law_III_failures holds at most one index, and
\* max_r_observed is the largest fix_radius_r of the rows recorded so far, 0 when
\* there is none, never above MAX_LAW_III_RADIUS.
C28_CorrectionBookkeeping ==
    pipeline = "law3" =>
        /\ total_law_I_failures = Len(correlation_data) + Len(law_III_failures)
        /\ Len(law_III_failures) <= 1
        /\ max_r_observed = LargestRecordedRadius
        /\ max_r_observed <= MAX_LAW_III_RADIUS

\* the run ended on a Law III failure after rows with radius 1 and radius 2 were
\* recorded: the counter is the number of rows plus one
C28_Witness ==
    /\ pipeline = "law3" /\ pc = "falsified"
    /\ Len(law_III_failures) = 1
    /\ max_r_observed = 2
    /\ \E a \in 1..Len(correlation_data) : correlation_data[a].fix_radius_r = 1
    /\ total_law_I_failures = Len(correlation_data) + 1

(***************************************************************************)
(* Index safety.                                                           *)
(***************************************************************************)
\* the indices of prime_list the iteration at index i reads or may read
IndicesRead ==
    IF pipeline = "cfr" THEN {i + Cardinality(cfr_skipped)}
    ELSE IF pipeline = "law3"
    THEN {i, i + 1} \cup UNION {{i - r, i - r + 1, i + r, i + r + 1} :
                                  r \in 1..MAX_LAW_III_RADIUS}
    ELSE {i, i + 1}

\* C30: once the prime-count precondition of a script has passed, every index of
\* prime_list an iteration of its main loop reads lies in 0..len(prime_list)-1:
\* i and i + 1 for every enumerated i, and in the correction-radius script
\* i - r, i - r + 1, i + r and i + r + 1 for every r in 1..MAX_LAW_III_RADIUS
\* (so i - r >= 0: no negative index wraps to the end of the list).
C30_IndexSafety ==
    (pc = "loop" /\ i < loop_end_index(pipeline)) =>
        \A j \in IndicesRead : 0 <= j /\ j < LenPrimeList

\* the gap-vs-residue loop is at its last index and is about to read the last
\* line of a file that has exactly the required number of lines
C30_Witness ==
    /\ pipeline = "gapres" /\ pc = "loop"
    /\ i = loop_end_index(pipeline) - 1
    /\ LenPrimeList = required_primes(pipeline)
    /\ i + 1 = LenPrimeList - 1
====
